---- MODULE Spec2Model ----
(***************************************************************************)
(* configarr: patch a flat XML configuration file from environment         *)
(* variables (src/cmd/configarr/main.go, lines 1-222).                     *)
(*                                                                         *)
(* Strings are sequences of one-character strings.  The bytes of the file  *)
(* are a sequence of XML tokens (start tag, end tag, character data,       *)
(* XML declaration), the granularity at which UnmarshalXML and MarshalXML  *)
(* see the document; character data is kept in its escaped (on-disk) form. *)
(***************************************************************************)
EXTENDS Integers, Sequences, FiniteSets, TLC

VARIABLES
    file,           \* the file at flags.ConfigFilePath: Absent or File(tokens)
    environ,        \* run's environ argument
    prefix,         \* flags.Prefix
    ignoreMissing,  \* flags.IgnoreMissingConfig
    pc,             \* position in run
    start,          \* UnmarshalXML's start element (the root's name)
    rest,           \* the decoder's unread tokens
    config,         \* the Config: [Properties, Keys]
    i,              \* index of the next envVar in updateConfigWithEnv's loop
    changed,        \* changedProperties
    warned,         \* the envVars passed to logger.Warn, in order
    err,            \* run's result: Nil or the error's message
    runs,           \* number of completed invocations of run
    writes,         \* number of os.WriteFile calls made
    file0,          \* history: the file when the current run started
    config0,        \* history: the Config when updateConfigWithEnv was entered
    doc1,           \* history: the Config the previous run encoded
    other,          \* the locals of a concurrent invocation of run, if any
    self,           \* which invocation the locals above belong to
    lastWriter      \* history: the invocation that wrote the file last

vars == <<file, environ, prefix, ignoreMissing, pc, start, rest, config, i,
          changed, warned, err, runs, writes, file0, config0, doc1, other,
          self, lastWriter>>

----------------------------------------------------------------------------
(* Bounds *)

\* longest environ
MaxEnv == 2
\* most child elements of an input file of the codec runs
MaxElems == 2

----------------------------------------------------------------------------
(* strings *)

Nil == <<>>
\* the file system at flags.ConfigFilePath: no file, or a file of bytes b
Absent == [exists |-> FALSE, bytes |-> <<>>]
File(b) == [exists |-> TRUE, bytes |-> b]

\* strings.ToUpper, on the letters the model uses
UpperChar(c) ==
    CASE c = "p" -> "P"
      [] c = "o" -> "O"
      [] c = "i" -> "I"
      [] c = "x" -> "X"
      [] c = "y" -> "Y"
      [] OTHER -> c

ToUpper(s) == [j \in 1..Len(s) |-> UpperChar(s[j])]

HasPrefixFold(s, p) ==
    /\ Len(s) >= Len(p)
    /\ ToUpper(SubSeq(s, 1, Len(p))) = ToUpper(p)

\* strings.HasPrefix
HasPrefix(s, p) ==
    /\ Len(s) >= Len(p)
    /\ SubSeq(s, 1, Len(p)) = p

\* strings.Index(s, "="): the first position of "=", 0 when there is none
IndexEq(s) ==
    IF \E j \in 1..Len(s) : s[j] = "="
    THEN CHOOSE j \in 1..Len(s) :
            /\ s[j] = "="
            /\ \A m \in 1..(j - 1) : s[m] # "="
    ELSE 0

LastIndexEq(s) ==
    IF \E j \in 1..Len(s) : s[j] = "="
    THEN CHOOSE j \in 1..Len(s) :
            /\ s[j] = "="
            /\ \A m \in (j + 1)..Len(s) : s[m] # "="
    ELSE 0

SplitLast(s) ==
    IF LastIndexEq(s) = 0
    THEN <<s>>
    ELSE <<SubSeq(s, 1, LastIndexEq(s) - 1), SubSeq(s, LastIndexEq(s) + 1, Len(s))>>

SplitCut(s) ==
    IF IndexEq(s) = 0
    THEN <<s, <<>>>>
    ELSE <<SubSeq(s, 1, IndexEq(s) - 1), SubSeq(s, IndexEq(s) + 1, Len(s))>>

RECURSIVE SplitAll(_)
SplitAll(s) ==
    IF IndexEq(s) = 0
    THEN <<s>>
    ELSE <<SubSeq(s, 1, IndexEq(s) - 1)>> \o SplitAll(SubSeq(s, IndexEq(s) + 1, Len(s)))

\* strings.SplitN(s, "=", 2)
SplitN2(s) ==
    IF IndexEq(s) = 0
    THEN <<s>>
    ELSE <<SubSeq(s, 1, IndexEq(s) - 1), SubSeq(s, IndexEq(s) + 1, Len(s))>>

\* strings.Contains, on messages kept as sequences of fragments
Contains(s, sub) ==
    \E j \in 1..(Len(s) - Len(sub) + 1) : SubSeq(s, j, j + Len(sub) - 1) = sub

----------------------------------------------------------------------------
(* XML tokens *)

StartElement(n) == [k |-> "start", v |-> n]
EndElement(n)   == [k |-> "end", v |-> n]
CharData(raw)   == [k |-> "text", v |-> raw]
ProcInst(ver)   == [k |-> "xmldecl", v |-> ver]

\* xml.EscapeText, per character; "^A" stands for a character XML text cannot
\* hold (a control character such as U+0001, or a byte that is not UTF-8),
\* which the encoder replaces by U+FFFD
EscapeChar(c) ==
    CASE c = "^A" -> "U+FFFD"
      [] c = "&" -> "&amp;"
      [] c = "<" -> "&lt;"
      [] c = ">" -> "&gt;"
      [] c = "'" -> "&#39;"
      [] c = "\"" -> "&#34;"
      [] c = "\n" -> "&#xA;"
      [] c = "\t" -> "&#x9;"
      [] c = "\r" -> "&#xD;"
      [] OTHER -> c

NoEscapeText(s) == s

EscapeText(s) == [j \in 1..Len(s) |-> EscapeChar(s[j])]

\* the decoder's entity and character-reference expansion, per character
UnescapeChar(r) ==
    CASE r = "&amp;" -> "&"
      [] r = "&lt;" -> "<"
      [] r = "&gt;" -> ">"
      [] r = "&#39;" -> "'"
      [] r = "&#34;" -> "\""
      [] r = "&#xA;" -> "\n"
      [] r = "&#x9;" -> "\t"
      [] r = "&#xD;" -> "\r"
      [] OTHER -> r

NoUnescapeText(raw) == raw

UnescapeText(raw) == [j \in 1..Len(raw) |-> UnescapeChar(raw[j])]

\* character data the strict decoder accepts: no bare "&", no "<"
TextOK(raw) == \A j \in 1..Len(raw) : raw[j] \notin {"&", "<"}

----------------------------------------------------------------------------
(* the Config and the codec *)

RootName == <<"C", "o", "n", "f", "i", "g">>

\* the element names of the model
A == <<"A">>
B == <<"B">>
C == <<"C">>

EmptyMap == [k \in {} |-> <<>>]

EmptyConfig == [Properties |-> EmptyMap, Keys |-> <<>>]

\* m[k] = v of a Go map
MapSet(m, k, v) == [x \in (DOMAIN m) \cup {k} |-> IF x = k THEN v ELSE m[x]]

\* m[k] of a Go map: the zero value when k is not a key
MapGet(m, k) == IF k \in DOMAIN m THEN m[k] ELSE <<>>

\* the phrase run looks for in the error's message
MissingPhrase == <<"file does not exist">>

ErrUnexpectedEOF == <<"XML syntax error: unexpected EOF">>
ErrClosedBy      == <<"XML syntax error: element closed by other element">>
ErrUnexpectedEnd == <<"XML syntax error: unexpected end element">>
ErrEntity        == <<"XML syntax error: invalid character entity">>
ErrEOF           == <<"EOF">>
ErrVersion(ver)  ==
    <<"xml: unsupported version ">> \o ver \o <<"; only version 1.0 is supported">>

VersionOK(ver) == ver = <<>> \/ ver = <<"1.0">>

Fail(msg) == [ok |-> FALSE, msg |-> msg, content |-> <<>>, name |-> <<>>, rest |-> <<>>]

\* d.DecodeElement(&content, &t) for a string: the element's own character
\* data, concatenated; child elements are skipped; ends at the matching end tag
RECURSIVE DecodeElement(_, _, _)
DecodeElement(toks, n, acc) ==
    IF toks = <<>>
    THEN Fail(ErrUnexpectedEOF)
    ELSE LET t == Head(toks) IN
         CASE t.k = "text" ->
                IF TextOK(t.v)
                THEN DecodeElement(Tail(toks), n, acc \o UnescapeText(t.v))
                ELSE Fail(ErrEntity)
           [] t.k = "end" ->
                IF t.v = n
                THEN [ok |-> TRUE, msg |-> Nil, content |-> acc, name |-> n,
                      rest |-> Tail(toks)]
                ELSE Fail(ErrClosedBy)
           [] t.k = "start" ->
                LET s == DecodeElement(Tail(toks), t.v, <<>>) IN
                IF s.ok THEN DecodeElement(s.rest, n, acc) ELSE s
           [] OTHER ->
                IF VersionOK(t.v)
                THEN DecodeElement(Tail(toks), n, acc)
                ELSE Fail(ErrVersion(t.v))

\* xml.Unmarshal up to the call of UnmarshalXML: read tokens until the first
\* start element
RECURSIVE FindStart(_)
FindStart(toks) ==
    IF toks = <<>>
    THEN Fail(ErrEOF)
    ELSE LET t == Head(toks) IN
         CASE t.k = "text" ->
                IF TextOK(t.v) THEN FindStart(Tail(toks)) ELSE Fail(ErrEntity)
           [] t.k = "end" -> Fail(ErrUnexpectedEnd)
           [] t.k = "start" ->
                [ok |-> TRUE, msg |-> Nil, content |-> <<>>, name |-> t.v,
                 rest |-> Tail(toks)]
           [] OTHER ->
                IF VersionOK(t.v) THEN FindStart(Tail(toks)) ELSE Fail(ErrVersion(t.v))

\* the child elements MarshalXML emits for keys, under xml.MarshalIndent(config, "", "  ")
RECURSIVE MarshalChildren(_, _)
MarshalChildren(keys, props) ==
    IF keys = <<>>
    THEN <<>>
    ELSE LET key == Head(keys)
             value == MapGet(props, key)
         IN  <<CharData(<<"\n", " ", " ">>), StartElement(key)>>
             \o (IF value = <<>> THEN <<>> ELSE <<CharData(EscapeText(value))>>)
             \o <<EndElement(key)>>
             \o MarshalChildren(Tail(keys), props)

MarshalIndentByMap(c) ==
    LET InProperties(k) == k \in DOMAIN c.Properties
        sorted == SelectSeq(<<A, B, C>>, InProperties)
    IN  IF sorted = <<>>
        THEN <<StartElement(RootName), EndElement(RootName)>>
        ELSE <<StartElement(RootName)>>
             \o MarshalChildren(sorted, c.Properties)
             \o <<CharData(<<"\n">>), EndElement(RootName)>>

\* xml.MarshalIndent(config, "", "  ") through Config.MarshalXML
MarshalIndent(c) ==
    IF c.Keys = <<>>
    THEN <<StartElement(RootName), EndElement(RootName)>>
    ELSE <<StartElement(RootName)>>
         \o MarshalChildren(c.Keys, c.Properties)
         \o <<CharData(<<"\n">>), EndElement(RootName)>>

\* writeConfigToFile's output for config
Encode(c) == MarshalIndent(c)

----------------------------------------------------------------------------
(* run *)

\* DefaultConfigPath, the value of flags.ConfigFilePath
ConfigFilePath == "/config/config.xml"

ErrNotExist == MissingPhrase \o <<": ", ConfigFilePath>>

ErrUnmarshal(msg) == <<"error unmarshalling XML: ">> \o msg

ReadErrorStrict(e, ignore) == <<"error reading XML file: ">> \o e

\* run's handling of the error of readAndParseXML: the error run returns
ReadError(e, ignore) ==
    IF Contains(e, MissingPhrase) /\ ignore
    THEN Nil
    ELSE <<"error reading XML file: ">> \o e

\* run returns e
Return(e) ==
    /\ pc' = "done"
    /\ err' = e
    /\ runs' = runs + 1

\* readAndParseXML up to the call of Config.UnmarshalXML, and run's handling of
\* its error
ReadAndParse ==
    /\ pc = "run"
    /\ file0' = file
    /\ IF ~file.exists
       THEN /\ Return(ReadError(ErrNotExist, ignoreMissing))
            /\ UNCHANGED <<start, rest, config>>
       ELSE LET s == FindStart(file.bytes) IN
            IF s.ok
            THEN /\ pc' = "unmarshal"
                 /\ start' = s.name
                 /\ rest' = s.rest
                 /\ config' = EmptyConfig
                 /\ UNCHANGED <<err, runs>>
            ELSE /\ Return(ReadError(ErrUnmarshal(s.msg), ignoreMissing))
                 /\ UNCHANGED <<start, rest, config>>
    /\ UNCHANGED <<file, environ, prefix, ignoreMissing, i, changed, warned,
                   writes, config0, doc1>>
    /\ UNCHANGED <<other, self, lastWriter>>

\* UnmarshalXML's case xml.StartElement: store the content, track the key order
StoreElement(c, name, content) ==
    [Properties |-> MapSet(c.Properties, name, content),
     Keys |-> Append(c.Keys, name)]

\* readAndParseXML fails inside UnmarshalXML: cfg is dropped, run returns
UnmarshalFails(msg) ==
    /\ Return(ReadError(ErrUnmarshal(msg), ignoreMissing))
    /\ config' = EmptyConfig
    /\ rest' = <<>>
    /\ UNCHANGED <<i, changed, config0>>

\* one iteration of UnmarshalXML's loop; at the root's end tag UnmarshalXML and
\* readAndParseXML return and run enters updateConfigWithEnv
UnmarshalStep ==
    /\ pc = "unmarshal"
    /\ IF rest = <<>>
       THEN UnmarshalFails(<<"error parsing XML token: ">> \o ErrUnexpectedEOF)
       ELSE LET t == Head(rest) IN
            CASE t.k = "text" ->
                   IF TextOK(t.v)
                   THEN /\ rest' = Tail(rest)
                        /\ UNCHANGED <<pc, err, runs, config, i, changed, config0>>
                   ELSE UnmarshalFails(<<"error parsing XML token: ">> \o ErrEntity)
              [] t.k = "end" ->
                   IF t.v = start
                   THEN /\ pc' = "update"
                        /\ rest' = Tail(rest)
                        /\ i' = 1
                        /\ changed' = EmptyMap
                        /\ config0' = config
                        /\ UNCHANGED <<err, runs, config>>
                   ELSE UnmarshalFails(<<"error parsing XML token: ">> \o ErrClosedBy)
              [] t.k = "start" ->
                   LET s == DecodeElement(Tail(rest), t.v, <<>>) IN
                   IF s.ok
                   THEN /\ config' = StoreElement(config, t.v, s.content)
                        /\ rest' = s.rest
                        /\ UNCHANGED <<pc, err, runs, i, changed, config0>>
                   ELSE UnmarshalFails(<<"error decoding XML element: ">> \o s.msg)
              [] OTHER ->
                   IF VersionOK(t.v)
                   THEN /\ rest' = Tail(rest)
                        /\ UNCHANGED <<pc, err, runs, config, i, changed, config0>>
                   ELSE UnmarshalFails(<<"error parsing XML token: ">> \o ErrVersion(t.v))
    /\ UNCHANGED <<file, environ, prefix, ignoreMissing, start, warned, writes,
                   file0, doc1>>
    /\ UNCHANGED <<other, self, lastWriter>>

UpdateIfExists(props, envKey, envValue) == envKey \in DOMAIN props

UpdateIfDifferent(props, envKey, envValue) == envValue # MapGet(props, envKey)

\* the condition under which updateConfigWithEnv assigns: the key exists and
\* the value differs from the current one
NeedsUpdate(props, envKey, envValue) ==
    /\ envKey \in DOMAIN props
    /\ envValue # props[envKey]

AssignUnrecorded(st, envKey, envValue) ==
    [st EXCEPT !.config.Properties = MapSet(@, envKey, envValue)]

AssignOldValue(st, envKey, envValue) ==
    [st EXCEPT !.config.Properties = MapSet(@, envKey, envValue),
               !.changed = MapSet(@, envKey, st.config.Properties[envKey])]

\* the assignments updateConfigWithEnv makes for an override
Assign(st, envKey, envValue) ==
    [st EXCEPT !.config.Properties = MapSet(@, envKey, envValue),
               !.changed = MapSet(@, envKey, envValue)]

NoWarn(st, envVar) == st

\* logger.Warn on a malformed envVar, and the loop goes on to the next
Warn(st, envVar) == [st EXCEPT !.warned = Append(@, envVar)]

\* what one envVar does to [config, changed, warned]: the body of
\* updateConfigWithEnv's loop
ApplyEnvVar(envVar, envPrefix, st) ==
    IF ~HasPrefix(envVar, envPrefix)
    THEN st
    ELSE LET parts == SplitN2(SubSeq(envVar, Len(envPrefix) + 1, Len(envVar))) IN
         IF Len(parts) # 2
         THEN Warn(st, envVar)
         ELSE LET envKeyValue == SplitN2(parts[2]) IN
              IF Len(envKeyValue) # 2
              THEN Warn(st, envVar)
              ELSE LET envKey == envKeyValue[1]
                       envValue == envKeyValue[2]
                   IN  IF NeedsUpdate(st.config.Properties, envKey, envValue)
                       THEN Assign(st, envKey, envValue)
                       ELSE st

\* updateConfigWithEnv as a function: the loop over env[n..], from st
RECURSIVE LoopFrom(_, _, _, _)
LoopFrom(env, n, envPrefix, st) ==
    IF n > Len(env)
    THEN st
    ELSE LoopFrom(env, n + 1, envPrefix, ApplyEnvVar(env[n], envPrefix, st))

\* one iteration of updateConfigWithEnv's loop over environ
UpdateStep ==
    /\ pc = "update"
    /\ i <= Len(environ)
    /\ LET st == ApplyEnvVar(environ[i], ToUpper(prefix),
                             [config |-> config, changed |-> changed, warned |-> warned])
       IN  /\ config' = st.config
           /\ changed' = st.changed
           /\ warned' = st.warned
    /\ i' = i + 1
    /\ UNCHANGED <<file, environ, prefix, ignoreMissing, pc, start, rest, err,
                   runs, writes, file0, config0, doc1>>
    /\ UNCHANGED <<other, self, lastWriter>>

\* updateConfigWithEnv returns changedProperties; run discards it and goes on
\* to writeConfigToFile
UpdateReturn ==
    /\ pc = "update"
    /\ i > Len(environ)
    /\ pc' = "write"
    /\ UNCHANGED <<file, environ, prefix, ignoreMissing, start, rest, config, i,
                   changed, warned, err, runs, writes, file0, config0, doc1>>
    /\ UNCHANGED <<other, self, lastWriter>>

\* writeConfigToFile, and run returns nil
WriteConfig ==
    /\ pc = "write"
    /\ file' = File(Encode(config))
    /\ writes' = writes + 1
    /\ doc1' = config
    /\ Return(Nil)
    /\ UNCHANGED <<environ, prefix, ignoreMissing, start, rest, config, i,
                   changed, warned, file0, config0>>
    /\ lastWriter' = self
    /\ UNCHANGED <<other, self>>

\* no concurrent invocation
NoOther == [pc |-> "none"]

\* the program is invoked again on the file the first invocation left
Rerun ==
    /\ pc = "done"
    /\ runs = 1
    /\ err = Nil
    /\ pc' = "run"
    /\ UNCHANGED <<file, environ, prefix, ignoreMissing, start, rest, config, i,
                   changed, warned, err, runs, writes, file0, config0, doc1>>
    /\ UNCHANGED <<other, self, lastWriter>>

\* the number of bytes of one character of escaped text
CharLen(c) ==
    CASE c \in {"&amp;", "&#39;", "&#34;", "&#xA;", "&#x9;", "&#xD;"} -> 5
      [] c \in {"&lt;", "&gt;"} -> 4
      [] c = "U+FFFD" -> 3
      [] OTHER -> 1

RECURSIVE TextLen(_)
TextLen(raw) == IF raw = <<>> THEN 0 ELSE CharLen(Head(raw)) + TextLen(Tail(raw))

\* bytes a longer, earlier content leaves after the end of a shorter write
Leftover(n) == [k |-> "leftover", v |-> n]

\* len(output): the number of bytes of what the encoder, or a write, produced
RECURSIVE ByteLen(_)
ByteLen(toks) ==
    IF toks = <<>>
    THEN 0
    ELSE LET t == Head(toks) IN
         (CASE t.k = "start" -> Len(t.v) + 2
            [] t.k = "end" -> Len(t.v) + 3
            [] t.k = "text" -> TextLen(t.v)
            [] t.k = "leftover" -> t.v)
         + ByteLen(Tail(toks))

WriteAppend(old, data) == old \o data

\* f.Write(data) of os.WriteFile: data goes to offset 0 of the content the
\* file has at that moment, and what that content has beyond it stays
WriteAt0(old, data) ==
    IF ByteLen(old) > ByteLen(data)
    THEN data \o <<Leftover(ByteLen(old) - ByteLen(data))>>
    ELSE data

\* writeConfigToFile up to the open of os.WriteFile, which is
\* OpenFile(name, O_WRONLY|O_CREATE|O_TRUNC, perm): the file is emptied
OpenTrunc ==
    /\ pc = "write"
    /\ pc' = "opened"
    /\ file' = File(<<>>)
    /\ UNCHANGED <<environ, prefix, ignoreMissing, start, rest, config, i,
                   changed, warned, err, runs, writes, file0, config0, doc1,
                   other, self, lastWriter>>

\* the write and close of os.WriteFile, and run returns nil
WriteData ==
    /\ pc = "opened"
    /\ file' = File(WriteAt0(file.bytes, Encode(config)))
    /\ writes' = writes + 1
    /\ doc1' = config
    /\ lastWriter' = self
    /\ Return(Nil)
    /\ UNCHANGED <<environ, prefix, ignoreMissing, start, rest, config, i,
                   changed, warned, file0, config0, other, self>>

\* the arguments and locals of the invocation that is running
Locals ==
    [environ |-> environ, prefix |-> prefix, ignoreMissing |-> ignoreMissing,
     pc |-> pc, start |-> start, rest |-> rest, config |-> config, i |-> i,
     changed |-> changed, warned |-> warned, err |-> err, file0 |-> file0,
     config0 |-> config0]

\* the processor leaves the running invocation for the concurrent one
Switch ==
    /\ other # NoOther
    /\ other.pc # "done"
    /\ environ' = other.environ
    /\ prefix' = other.prefix
    /\ ignoreMissing' = other.ignoreMissing
    /\ pc' = other.pc
    /\ start' = other.start
    /\ rest' = other.rest
    /\ config' = other.config
    /\ i' = other.i
    /\ changed' = other.changed
    /\ warned' = other.warned
    /\ err' = other.err
    /\ file0' = other.file0
    /\ config0' = other.config0
    /\ other' = Locals
    /\ self' = 3 - self
    /\ UNCHANGED <<file, runs, writes, doc1, lastWriter>>

----------------------------------------------------------------------------
(* inputs *)

\* the tokens of child elements elems (pairs <<name, raw text>>), each after
\* the character data lead
RECURSIVE Children(_, _)
Children(elems, lead) ==
    IF elems = <<>>
    THEN <<>>
    ELSE LET e == Head(elems) IN
         lead \o <<StartElement(e[1])>>
         \o (IF e[2] = <<>> THEN <<>> ELSE <<CharData(e[2])>>)
         \o <<EndElement(e[1])>>
         \o Children(Tail(elems), lead)

\* <Config><A>x</A>...</Config> on one line
Compact(elems) ==
    <<StartElement(RootName)>> \o Children(elems, <<>>) \o <<EndElement(RootName)>>

\* the same document, one child per line, indented by two spaces
Indented(elems) ==
    IF elems = <<>>
    THEN Compact(elems)
    ELSE <<StartElement(RootName)>>
         \o Children(elems, <<CharData(<<"\n", " ", " ">>)>>)
         \o <<CharData(<<"\n">>), EndElement(RootName)>>

\* <Config><A>x<A></Config>: the malformed document of TestConfig_UnmarshalXML
Unclosed ==
    <<StartElement(RootName), StartElement(A), CharData(<<"x">>), StartElement(A),
      EndElement(RootName)>>

\* <Config><A>x</A>: the root is never closed
Truncated == <<StartElement(RootName), StartElement(A), CharData(<<"x">>), EndElement(A)>>

\* <Config><A>x<B>y</B></A></Config>: a child with a child of its own
Nested ==
    <<StartElement(RootName), StartElement(A), CharData(<<"x">>), StartElement(B),
      CharData(<<"y">>), EndElement(B), EndElement(A), EndElement(RootName)>>

AxBy == <<<<A, <<"x">>>>, <<B, <<"y">>>>>>

\* the files run is started on
RunFiles ==
    {Absent} \cup
    { File(b) : b \in
        { Compact(AxBy),
          Indented(AxBy),
          Compact(<<>>),
          Compact(<<<<A, <<"x">>>>, <<A, <<"y">>>>>>),
          Indented(<<<<B, <<"&amp;", "y">>>>, <<A, <<>>>>>>),
          Unclosed,
          Truncated,
          Nested,
          <<ProcInst(<<"1.0">>)>> \o Indented(AxBy),
          <<ProcInst(<<"2.0">>)>> \o Indented(AxBy),
          <<ProcInst(MissingPhrase)>> \o Compact(AxBy) } }

\* the environment variables environ is made of, with prefix P_
EnvVars ==
    { <<"P", "_", "I", "=", "A", "=", "x">>,
      <<"P", "_", "J", "=", "A", "=", "y">>,
      <<"P", "_", "=", "B", "=", "x", "=", "y">>,
      <<"P", "_", "I", "=", "B", "=">>,
      <<"P", "_", "I", "=", "B", "=", "<">>,
      <<"P", "_", "I", "=", "C", "=", "x">>,
      <<"P", "_", "I">>,
      <<"P", "_", "I", "=", "A">>,
      <<"p", "_", "I", "=", "A", "=", "y">>,
      <<"O", "_", "I", "=", "A", "=", "y">> }

Environs == UNION {[1..n -> EnvVars] : n \in 0..MaxEnv}

Prefixes == {<<"P", "_">>, <<"p", "_">>}

\* the files of the repeated runs: documents with distinct element names
TwiceFiles ==
    { File(b) : b \in
        { Compact(AxBy),
          Indented(AxBy),
          Compact(<<>>),
          Indented(<<<<B, <<"&amp;", "y">>>>, <<A, <<>>>>>>),
          <<ProcInst(<<"1.0">>)>> \o Indented(AxBy) } }

\* the file two concurrent invocations are started on
ConcFile == File(Compact(AxBy))

\* the environments of the concurrent invocations
ConcEnvirons ==
    { <<>>,
      << <<"P", "_", "J", "=", "A", "=", "y">> >>,
      << <<"P", "_", "=", "B", "=", "x", "=", "y">> >>,
      << <<"P", "_", "I", "=", "B", "=">> >> }

\* the environments of the repeated runs: a value may hold a character XML
\* text cannot hold
TwiceEnvirons ==
    UNION {[1..n -> EnvVars \cup {<<"P", "_", "I", "=", "A", "=", "^A">>}] :
              n \in 0..MaxEnv}

\* the raw texts of the child elements of the codec runs' files
RawTexts == {<<>>, <<"x">>, <<"&lt;", "y">>}

ElemLists == UNION {[1..n -> {A, B, C} \X RawTexts] : n \in 0..MaxElems}

\* the files the codec runs are started on: every document of at most
\* MaxElems flat children, compact and indented
CodecFiles ==
    {File(Compact(e)) : e \in ElemLists} \cup {File(Indented(e)) : e \in ElemLists}

----------------------------------------------------------------------------
(* specifications *)

InitRun(f, env, p, ign) ==
    /\ file = f
    /\ environ = env
    /\ prefix = p
    /\ ignoreMissing = ign
    /\ pc = "run"
    /\ start = <<>>
    /\ rest = <<>>
    /\ config = EmptyConfig
    /\ i = 1
    /\ changed = EmptyMap
    /\ warned = <<>>
    /\ err = Nil
    /\ runs = 0
    /\ writes = 0
    /\ file0 = f
    /\ config0 = EmptyConfig
    /\ doc1 = EmptyConfig
    /\ other = NoOther
    /\ self = 1
    /\ lastWriter = 0

\* one invocation of run, on any file, environment and flags
Init ==
    \E f \in RunFiles, env \in Environs, p \in Prefixes, ign \in BOOLEAN :
        InitRun(f, env, p, ign)

Next ==
    \/ ReadAndParse
    \/ UnmarshalStep
    \/ UpdateStep
    \/ UpdateReturn
    \/ WriteConfig

Spec == Init /\ [][Next]_vars

\* two invocations of run in succession with an empty environment: the file is
\* decoded, encoded, and decoded again
InitCodec == \E f \in CodecFiles : InitRun(f, <<>>, <<"P", "_">>, FALSE)

NextCodec ==
    \/ ReadAndParse
    \/ UnmarshalStep
    \/ UpdateReturn
    \/ WriteConfig
    \/ Rerun

SpecCodec == InitCodec /\ [][NextCodec]_vars

\* two invocations of run in succession with the same flags and the same
\* environment, the second on the file the first one wrote
InitTwice ==
    \E f \in TwiceFiles, env \in TwiceEnvirons, p \in Prefixes :
        InitRun(f, env, p, FALSE)

NextTwice ==
    \/ ReadAndParse
    \/ UnmarshalStep
    \/ UpdateStep
    \/ UpdateReturn
    \/ WriteConfig
    \/ Rerun

SpecTwice == InitTwice /\ [][NextTwice]_vars

\* the locals of an invocation of run at its entry
Fresh(f, env, p, ign) ==
    [environ |-> env, prefix |-> p, ignoreMissing |-> ign, pc |-> "run",
     start |-> <<>>, rest |-> <<>>, config |-> EmptyConfig, i |-> 1,
     changed |-> EmptyMap, warned |-> <<>>, err |-> Nil, file0 |-> f,
     config0 |-> EmptyConfig]

\* two invocations of run started on the same file, each with its own
\* environment, their steps interleaved in any order
InitConc ==
    \E env1 \in ConcEnvirons, env2 \in ConcEnvirons :
        /\ file = ConcFile
        /\ environ = env1
        /\ prefix = <<"P", "_">>
        /\ ignoreMissing = FALSE
        /\ pc = "run"
        /\ start = <<>>
        /\ rest = <<>>
        /\ config = EmptyConfig
        /\ i = 1
        /\ changed = EmptyMap
        /\ warned = <<>>
        /\ err = Nil
        /\ runs = 0
        /\ writes = 0
        /\ file0 = ConcFile
        /\ config0 = EmptyConfig
        /\ doc1 = EmptyConfig
        /\ other = Fresh(ConcFile, env2, <<"P", "_">>, FALSE)
        /\ self = 1
        /\ lastWriter = 0

NextConc ==
    \/ ReadAndParse
    \/ UnmarshalStep
    \/ UpdateStep
    \/ UpdateReturn
    \/ OpenTrunc
    \/ WriteData
    \/ Switch

SpecConc == InitConc /\ [][NextConc]_vars

----------------------------------------------------------------------------
(* the vocabulary of the properties, stated without the operators of the model *)

UpperPrefix == ToUpper(prefix)

BeginsWith(s, p) ==
    /\ Len(s) >= Len(p)
    /\ \A j \in 1..Len(p) : s[j] = p[j]

\* the positions of "=" in s after a prefix of the length of p
EqualsAfter(s, p) == {m \in (Len(p) + 1)..Len(s) : s[m] = "="}

Least(S) == CHOOSE x \in S : \A y \in S : x <= y

Greatest(S) == CHOOSE x \in S : \A y \in S : x >= y

\* s is <p><identifier>=<key>=<value>
WellShaped(s, p) ==
    /\ BeginsWith(s, p)
    /\ Cardinality(EqualsAfter(s, p)) >= 2

FirstEq(s, p) == Least(EqualsAfter(s, p))

SecondEq(s, p) == Least(EqualsAfter(s, p) \ {FirstEq(s, p)})

KeyOf(s, p) == SubSeq(s, FirstEq(s, p) + 1, SecondEq(s, p) - 1)

ValueOf(s, p) == SubSeq(s, SecondEq(s, p) + 1, Len(s))

\* the strings among the first n of environ that name key k
Overriders(k, n) ==
    {j \in 1..n : /\ WellShaped(environ[j], UpperPrefix)
                  /\ KeyOf(environ[j], UpperPrefix) = k}

\* the value key k is to have once the first n strings are processed
ValueAfter(k, n) ==
    IF Overriders(k, n) = {}
    THEN config0.Properties[k]
    ELSE ValueOf(environ[Greatest(Overriders(k, n))], UpperPrefix)

\* updateConfigWithEnv has been entered in this state
EngineEntered == pc \in {"update", "write"} \/ (pc = "done" /\ writes > 0)

\* the number of strings of environ the engine has processed
Processed == IF pc = "update" THEN i - 1 ELSE Len(environ)

\* updateConfigWithEnv has returned
EngineReturned == pc = "write" \/ (pc = "done" /\ writes > 0)

----------------------------------------------------------------------------
(* C1 *)

\* C1: once updateConfigWithEnv has processed a sequence of environment
\* strings, every key of the Config holds the value of the last string that
\* begins with the uppercased prefix, has the shape
\* <identifier>=<key>=<value> after it and names the key; a key no such string
\* names holds the value it had after decode.
Thm_C1_LastOverrideWins ==
    EngineEntered =>
        /\ DOMAIN config.Properties = DOMAIN config0.Properties
        /\ \A k \in DOMAIN config.Properties :
              config.Properties[k] = ValueAfter(k, Processed)

\* the engine has returned after two strings named one key with different
\* values, the second of which the key holds, and another key was named by none
Wit_C1_LastOverrideWins ==
    /\ EngineReturned
    /\ \E k \in DOMAIN config.Properties :
          /\ Cardinality(Overriders(k, Len(environ))) = 2
          /\ ValueOf(environ[1], UpperPrefix) # ValueOf(environ[2], UpperPrefix)
          /\ config.Properties[k] = ValueOf(environ[2], UpperPrefix)
          /\ config.Properties[k] # config0.Properties[k]
    /\ \E k \in DOMAIN config.Properties :
          /\ Overriders(k, Len(environ)) = {}
          /\ config.Properties[k] = config0.Properties[k]

----------------------------------------------------------------------------
(* C2 *)

\* C2: when updateConfigWithEnv returns an empty change set, run makes no
\* write and the file's bytes are those that were read.
Cex_C2_NoRewriteWithoutChange ==
    (pc = "done" /\ err = Nil /\ changed = EmptyMap) =>
        (writes = 0 /\ file = file0)

----------------------------------------------------------------------------
(* C3 *)

IsStart(t) == t.k = "start"

\* the names of the child elements of a flat document, in document order: its
\* start tags but the root's
ChildNames(b) == [j \in 1..(Len(SelectSeq(b, IsStart)) - 1) |-> SelectSeq(b, IsStart)[j + 1].v]

\* C3: the Config decoded from a well-formed flat document lists the child
\* element names in the order of the source, and the encoded file has one
\* child element per listed name, in that order.
Thm_C3_OrderPreserved ==
    /\ (runs = 0 /\ pc \in {"update", "write"}) =>
          config.Keys = ChildNames(file0.bytes)
    /\ (pc = "done" /\ writes > 0) =>
          ChildNames(file.bytes) = config.Keys

\* a document whose children are not in alphabetical order was decoded and
\* encoded
Wit_C3_OrderPreserved ==
    /\ pc = "done"
    /\ runs = 1
    /\ writes = 1
    /\ config.Keys = <<C, A>>
    /\ ChildNames(file.bytes) = <<C, A>>
    /\ file # file0

----------------------------------------------------------------------------
(* C4 *)

\* C4: decoding the bytes encoded from a Config succeeds and yields a Config
\* with the same entries and the same key order.
Thm_C4_RoundTrip ==
    /\ (runs = 1 /\ pc \in {"update", "write"}) => config = doc1
    /\ runs = 2 => err = Nil

\* a Config of distinct keys, one of whose values needs escaping, was encoded
\* and decoded again
Wit_C4_RoundTrip ==
    /\ runs = 1
    /\ pc = "write"
    /\ Len(doc1.Keys) = 2
    /\ doc1.Keys[1] # doc1.Keys[2]
    /\ doc1.Properties[doc1.Keys[1]] = <<"<", "y">>
    /\ config = doc1

----------------------------------------------------------------------------
(* C5 *)

\* C5: in every state Keys has no duplicate, is as long as Properties has
\* entries, and holds exactly the keys of Properties.
Cex_C5_KeysMatchProperties ==
    /\ \A a, b \in 1..Len(config.Keys) : a # b => config.Keys[a] # config.Keys[b]
    /\ Len(config.Keys) = Cardinality(DOMAIN config.Properties)
    /\ {config.Keys[a] : a \in 1..Len(config.Keys)} = DOMAIN config.Properties

----------------------------------------------------------------------------
(* C6 *)

\* C6: a key is in the change set if and only if its value after the engine
\* has processed the whole sequence differs from its value before.
Cex_C6_ChangedIffDiffers ==
    EngineReturned =>
        /\ DOMAIN changed \subseteq DOMAIN config0.Properties
        /\ \A k \in DOMAIN config0.Properties :
              k \in DOMAIN changed <=> config.Properties[k] # config0.Properties[k]

\* C6, amended: a key is in the change set if and only if some string of the
\* sequence replaced its value, that is named it with a value other than the one
\* it had when the string was processed; a key whose value differs from the one
\* before the engine ran is in the change set.
Thm_C6_ChangedIffReplaced ==
    EngineEntered =>
        /\ DOMAIN changed \subseteq DOMAIN config0.Properties
        /\ \A k \in DOMAIN config0.Properties :
              /\ k \in DOMAIN changed <=>
                    \E j \in Overriders(k, Processed) :
                        ValueOf(environ[j], UpperPrefix) # ValueAfter(k, j - 1)
              /\ config.Properties[k] # config0.Properties[k] => k \in DOMAIN changed

\* the engine has returned with a key in the change set whose value a later
\* string set back to the one it had before
Wit_C6_ChangedIffReplaced ==
    /\ EngineReturned
    /\ \E k \in DOMAIN changed :
          /\ config.Properties[k] = config0.Properties[k]
          /\ Cardinality(Overriders(k, Len(environ))) = 2

----------------------------------------------------------------------------
(* C7 *)

\* C7: the engine only replaces values: the key set and the key order after
\* (and while) it runs are those before it ran.
Thm_C7_KeysFrame ==
    EngineEntered =>
        /\ config.Keys = config0.Keys
        /\ DOMAIN config.Properties = DOMAIN config0.Properties

\* the engine has returned after a well-shaped string named a key that is not
\* in the Config and another string replaced a value
Wit_C7_KeysFrame ==
    /\ EngineReturned
    /\ changed # EmptyMap
    /\ Len(config.Keys) = 2
    /\ \E j \in 1..Len(environ) :
          /\ WellShaped(environ[j], UpperPrefix)
          /\ KeyOf(environ[j], UpperPrefix) \notin DOMAIN config.Properties

----------------------------------------------------------------------------
(* C8 *)

IsSpace(raw) == \A j \in 1..Len(raw) : raw[j] \in {" ", "\n", "\t", "\r"}

\* well-formed XML 1.0: an optional declaration of version 1.0 first, one root
\* element, tags properly nested, no bare "&" or "<" in character data, only
\* white space outside the root
RECURSIVE Nests(_, _, _)
Nests(toks, open, rootSeen) ==
    IF toks = <<>>
    THEN open = <<>> /\ rootSeen
    ELSE LET t == Head(toks) IN
         CASE t.k = "start" ->
                /\ ~(open = <<>> /\ rootSeen)
                /\ Nests(Tail(toks), <<t.v>> \o open, TRUE)
           [] t.k = "end" ->
                /\ open # <<>>
                /\ Head(open) = t.v
                /\ Nests(Tail(toks), Tail(open), rootSeen)
           [] t.k = "text" ->
                /\ \A j \in 1..Len(t.v) : t.v[j] # "&" /\ t.v[j] # "<"
                /\ open = <<>> => IsSpace(t.v)
                /\ Nests(Tail(toks), open, rootSeen)
           [] OTHER -> FALSE

WellFormedXML(b) ==
    IF b # <<>> /\ Head(b).k = "xmldecl"
    THEN Head(b).v = <<"1.0">> /\ Nests(Tail(b), <<>>, FALSE)
    ELSE Nests(b, <<>>, FALSE)

\* updateConfigWithEnv has not run
EngineNotRun == i = 1 /\ changed = EmptyMap /\ warned = <<>>

\* C8: when the file exists and is malformed, run returns an error whatever
\* ignoreMissing is, the engine has not run, nothing is written and the file is
\* unchanged.
Cex_C8_MalformedIsFatal ==
    (pc = "done" /\ file0.exists /\ ~WellFormedXML(file0.bytes)) =>
        /\ err # Nil
        /\ EngineNotRun
        /\ writes = 0
        /\ file = file0

----------------------------------------------------------------------------
(* C9 *)

\* C9: when the file does not exist, run returns nil if and only if
\* ignoreMissing is set and the missing-file error otherwise; the engine has not
\* run and no file exists afterwards.
Thm_C9_MissingFile ==
    (pc = "done" /\ ~file0.exists) =>
        /\ err = Nil <=> ignoreMissing
        /\ err # Nil => Contains(err, MissingPhrase)
        /\ EngineNotRun
        /\ writes = 0
        /\ ~file.exists

\* run has returned nil for a missing file although environ holds an override
Wit_C9_MissingFile ==
    /\ pc = "done"
    /\ ~file0.exists
    /\ ignoreMissing
    /\ err = Nil
    /\ ~file.exists
    /\ \E j \in 1..Len(environ) : WellShaped(environ[j], UpperPrefix)

----------------------------------------------------------------------------
(* C10 *)

\* string j of environ names a key of props with the value the key has in props
EqualOverride(j, props) ==
    /\ WellShaped(environ[j], UpperPrefix)
    /\ KeyOf(environ[j], UpperPrefix) \in DOMAIN props
    /\ ValueOf(environ[j], UpperPrefix) = props[KeyOf(environ[j], UpperPrefix)]

\* C10: processing an override whose value is the key's current value leaves
\* the Config and the change set as they are, and an environment of such
\* overrides only ends with an empty change set.
Thm_C10_EqualValueIsNoChange ==
    [][ /\ (pc = "update" /\ i <= Len(environ)
                /\ EqualOverride(i, config.Properties)) =>
              (config' = config /\ changed' = changed)
        /\ (pc = "update" /\ pc' = "write"
                /\ \A j \in 1..Len(environ) : EqualOverride(j, config0.Properties)) =>
              (changed' = EmptyMap /\ config' = config0)
      ]_vars

\* the engine has returned from an environment of two overrides, each with the
\* value its key already had, and the change set is empty
Wit_C10_EqualValueIsNoChange ==
    /\ pc = "write"
    /\ Len(environ) = 2
    /\ \A j \in 1..Len(environ) : EqualOverride(j, config0.Properties)
    /\ changed = EmptyMap
    /\ config = config0

----------------------------------------------------------------------------
(* C11 *)

\* s begins with p and has fewer than two "=" after it
Malformed(s, p) ==
    /\ BeginsWith(s, p)
    /\ Cardinality(EqualsAfter(s, p)) < 2

\* environ without its malformed strings
WithoutMalformed == SelectSeq(environ, LAMBDA s : ~Malformed(s, UpperPrefix))

\* C11: the iteration on a malformed prefixed string changes neither the
\* Document nor the change set, raises no error and goes on to the next
\* string; and when the engine returns, the Document and the change set are
\* the ones the engine computes from the same Document on environ with the
\* malformed strings taken out.
Thm_C11_MalformedSkipped ==
    [][ /\ (pc = "update" /\ i <= Len(environ) /\ Malformed(environ[i], UpperPrefix))
            => /\ config' = config
               /\ changed' = changed
               /\ err' = Nil
               /\ pc' = "update"
               /\ i' = i + 1
        /\ (pc = "update" /\ pc' = "write")
            => LET r == LoopFrom(WithoutMalformed, 1, UpperPrefix,
                                 [config |-> config0, changed |-> EmptyMap,
                                  warned |-> <<>>])
               IN  /\ config' = r.config
                   /\ changed' = r.changed ]_vars

\* a malformed string was skipped and a later override was applied
Wit_C11_MalformedSkipped ==
    /\ pc = "write"
    /\ \E j \in 1..Len(environ), m \in 1..Len(environ) :
          /\ j < m
          /\ Malformed(environ[j], UpperPrefix)
          /\ WellShaped(environ[m], UpperPrefix)
          /\ KeyOf(environ[m], UpperPrefix) \in DOMAIN changed
          /\ config.Properties[KeyOf(environ[m], UpperPrefix)]
                = ValueOf(environ[m], UpperPrefix)
          /\ config # config0

----------------------------------------------------------------------------
(* C12 *)

\* s produces no change: it lacks the prefix, or names a key the Document
\* does not have, or gives the key the value it has
Quiet(s, p, props) ==
    \/ ~BeginsWith(s, p)
    \/ /\ WellShaped(s, p)
       /\ \/ KeyOf(s, p) \notin DOMAIN props
          \/ /\ KeyOf(s, p) \in DOMAIN props
             /\ ValueOf(s, p) = props[KeyOf(s, p)]

\* C12: the strings passed to logger.Warn are, in order, exactly the
\* malformed prefixed strings among those processed so far; strings without
\* the prefix, well-formed ones naming an unknown key and well-formed ones
\* giving the current value are not among them.
Thm_C12_WarnsExactlyMalformed ==
    EngineEntered =>
        /\ warned = SelectSeq(SubSeq(environ, 1, Processed),
                              LAMBDA s : Malformed(s, UpperPrefix))
        /\ \A j \in 1..Processed :
              Quiet(environ[j], UpperPrefix, config0.Properties)
                  => \A m \in 1..Len(warned) : warned[m] # environ[j]

\* one malformed string was warned about, next to a string that changes
\* nothing and was not
Wit_C12_WarnsExactlyMalformed ==
    /\ pc = "write"
    /\ Len(environ) = 2
    /\ \E j \in 1..2 :
          /\ Malformed(environ[j], UpperPrefix)
          /\ warned = <<environ[j]>>
          /\ Quiet(environ[3 - j], UpperPrefix, config0.Properties)
          /\ BeginsWith(environ[3 - j], UpperPrefix)

----------------------------------------------------------------------------
(* C13 *)

\* C13: the iteration on a string that does not begin, letter for letter,
\* with the upper-cased prefix changes neither the Document nor the change
\* set (nor warns); the iteration on a string that does begin with it and
\* names an existing key with another value sets the key.  So under a
\* lower-case prefix the lower-case spelling is not matched and the
\* upper-case spelling is.
Thm_C13_PrefixCaseSensitive ==
    [][ (pc = "update" /\ i <= Len(environ)) =>
          /\ ~BeginsWith(environ[i], UpperPrefix)
                => /\ config' = config
                   /\ changed' = changed
                   /\ warned' = warned
          /\ ( /\ WellShaped(environ[i], UpperPrefix)
               /\ KeyOf(environ[i], UpperPrefix) \in DOMAIN config.Properties
               /\ ValueOf(environ[i], UpperPrefix)
                     # config.Properties[KeyOf(environ[i], UpperPrefix)] )
                => /\ config'.Properties[KeyOf(environ[i], UpperPrefix)]
                        = ValueOf(environ[i], UpperPrefix)
                   /\ KeyOf(environ[i], UpperPrefix) \in DOMAIN changed' ]_vars

\* the prefix is configured in lower case; of two strings naming the same
\* key and value the one spelled with the lower-case prefix was passed over
\* and the one spelled with the upper-case prefix set the key
Wit_C13_PrefixCaseSensitive ==
    /\ pc = "write"
    /\ Len(environ) = 2
    /\ prefix # UpperPrefix
    /\ WellShaped(environ[1], prefix)
    /\ WellShaped(environ[2], UpperPrefix)
    /\ KeyOf(environ[2], UpperPrefix) = KeyOf(environ[1], prefix)
    /\ ValueOf(environ[2], UpperPrefix) = ValueOf(environ[1], prefix)
    /\ KeyOf(environ[2], UpperPrefix) \in DOMAIN config0.Properties
    /\ config0.Properties[KeyOf(environ[2], UpperPrefix)]
          # ValueOf(environ[2], UpperPrefix)
    /\ config.Properties[KeyOf(environ[2], UpperPrefix)]
          = ValueOf(environ[2], UpperPrefix)
    /\ DOMAIN changed = {KeyOf(environ[2], UpperPrefix)}
    /\ warned = <<>>

----------------------------------------------------------------------------
(* C14 *)

\* map m with key k set to v
With(m, k, v) == [x \in (DOMAIN m) \cup {k} |-> IF x = k THEN v ELSE m[x]]

\* C14: the iteration on a prefixed string with at least two "=" after the
\* prefix depends only on the text between the first and the second "="
\* (the key) and on everything after the second "=" (the value, further "="
\* and the empty string included): when the key exists with another value
\* the Document and the change set get exactly that value for that key, and
\* otherwise they stay as they were; the identifier before the first "="
\* plays no part and nothing is warned about.
Thm_C14_SplitTwiceOnFirstEq ==
    [][ (pc = "update" /\ i <= Len(environ) /\ WellShaped(environ[i], UpperPrefix)) =>
          LET k == KeyOf(environ[i], UpperPrefix)
              v == ValueOf(environ[i], UpperPrefix)
          IN  /\ warned' = warned
              /\ config'.Keys = config.Keys
              /\ IF k \in DOMAIN config.Properties /\ config.Properties[k] # v
                 THEN /\ config'.Properties = With(config.Properties, k, v)
                      /\ changed' = With(changed, k, v)
                 ELSE /\ config'.Properties = config.Properties
                      /\ changed' = changed ]_vars

\* a string with an empty value and then a string with an empty identifier
\* and a value holding "=" were applied to the same key
Wit_C14_SplitTwiceOnFirstEq ==
    /\ pc = "write"
    /\ Len(environ) = 2
    /\ WellShaped(environ[1], UpperPrefix)
    /\ WellShaped(environ[2], UpperPrefix)
    /\ ValueOf(environ[1], UpperPrefix) = <<>>
    /\ FirstEq(environ[1], UpperPrefix) > Len(prefix) + 1
    /\ FirstEq(environ[2], UpperPrefix) = Len(prefix) + 1
    /\ \E j \in 1..Len(ValueOf(environ[2], UpperPrefix)) :
          ValueOf(environ[2], UpperPrefix)[j] = "="
    /\ KeyOf(environ[1], UpperPrefix) = KeyOf(environ[2], UpperPrefix)
    /\ KeyOf(environ[1], UpperPrefix) \in DOMAIN config0.Properties
    /\ config0.Properties[KeyOf(environ[1], UpperPrefix)] # <<>>
    /\ config.Properties[KeyOf(environ[2], UpperPrefix)]
          = ValueOf(environ[2], UpperPrefix)
    /\ changed[KeyOf(environ[2], UpperPrefix)] = ValueOf(environ[2], UpperPrefix)

----------------------------------------------------------------------------
(* C15 *)

\* both concurrent invocations have returned
BothDone == pc = "done" /\ other.pc = "done"

\* each invocation read the file as it was before either opened it for writing
ReadBeforeWrites == file0 = ConcFile /\ other.file0 = ConcFile

\* the locals of invocation p
LocalsOf(p) == IF p = self THEN Locals ELSE other

\* the strings of env that name key k, under prefix P_
NamedBy(env, k) ==
    {j \in 1..Len(env) : /\ WellShaped(env[j], <<"P", "_">>)
                         /\ KeyOf(env[j], <<"P", "_">>) = k}

\* the value an invocation with environment env gives key k of Document props
Overridden(env, props, k) ==
    IF NamedBy(env, k) = {}
    THEN props[k]
    ELSE ValueOf(env[Greatest(NamedBy(env, k))], <<"P", "_">>)

\* the invocation that wrote last has the Document its own environment makes
\* of the file both read: what only the other one overrode is not in it
LastWriterAlone ==
    LET last == LocalsOf(lastWriter) IN
    /\ lastWriter \in {1, 2}
    /\ DOMAIN last.config.Properties = DOMAIN last.config0.Properties
    /\ \A k \in DOMAIN last.config.Properties :
          last.config.Properties[k]
            = Overridden(last.environ, last.config0.Properties, k)

\* C15 as stated: when both invocations read before either wrote, the final
\* file is the output of the invocation that wrote last.
Cex_C15_LastWriterWins ==
    (BothDone /\ ReadBeforeWrites) =>
        /\ LastWriterAlone
        /\ file = File(Encode(LocalsOf(lastWriter).config))

\* C15, amended: when both invocations read before either wrote, the final
\* file begins with the output of the invocation that wrote last, whose
\* Document holds no override of the other; the file is exactly that output
\* unless the other output is longer, and then it is either that output or
\* that output followed by the bytes by which the other output is longer.
Thm_C15_LastWriterWinsOrTears ==
    (BothDone /\ ReadBeforeWrites) =>
        LET out == Encode(LocalsOf(lastWriter).config)
            gap == ByteLen(Encode(LocalsOf(3 - lastWriter).config)) - ByteLen(out)
        IN  /\ LastWriterAlone
            /\ writes = 2
            /\ file.exists
            /\ SubSeq(file.bytes, 1, Len(out)) = out
            /\ \/ file.bytes = out
               \/ /\ gap > 0
                  /\ file.bytes = out \o <<Leftover(gap)>>

\* both invocations read, both opened the file, and the one that wrote last
\* wrote the shorter output: the override of the earlier writer is lost and
\* the end of its output is left in the file
Wit_C15_LastWriterWinsOrTears ==
    /\ BothDone
    /\ ReadBeforeWrites
    /\ lastWriter \in {1, 2}
    /\ file.bytes # Encode(LocalsOf(lastWriter).config)
    /\ \E k \in DOMAIN LocalsOf(3 - lastWriter).changed :
          /\ k \notin DOMAIN LocalsOf(lastWriter).changed
          /\ LocalsOf(lastWriter).config.Properties[k]
                = LocalsOf(lastWriter).config0.Properties[k]

----------------------------------------------------------------------------
(* C16 *)

\* C16: once updateConfigWithEnv has returned, every key of the change set
\* is a key of the Document and carries the value the Document has for it.
Thm_C16_ChangedAgreesWithDocument ==
    EngineReturned =>
        \A k \in DOMAIN changed :
            /\ k \in DOMAIN config.Properties
            /\ \E j \in 1..Len(config.Keys) : config.Keys[j] = k
            /\ changed[k] = config.Properties[k]

\* two strings replaced the value of the same key, one after the other
Wit_C16_ChangedAgreesWithDocument ==
    /\ pc = "write"
    /\ Len(environ) = 2
    /\ WellShaped(environ[1], UpperPrefix)
    /\ WellShaped(environ[2], UpperPrefix)
    /\ KeyOf(environ[1], UpperPrefix) = KeyOf(environ[2], UpperPrefix)
    /\ KeyOf(environ[1], UpperPrefix) \in DOMAIN config0.Properties
    /\ ValueOf(environ[1], UpperPrefix)
          # config0.Properties[KeyOf(environ[1], UpperPrefix)]
    /\ ValueOf(environ[2], UpperPrefix) # ValueOf(environ[1], UpperPrefix)
    /\ ValueOf(environ[2], UpperPrefix)
          # config0.Properties[KeyOf(environ[1], UpperPrefix)]
    /\ DOMAIN changed = {KeyOf(environ[1], UpperPrefix)}

----------------------------------------------------------------------------
(* C17 *)

\* the second of two invocations has returned
SecondRunDone == runs = 2 /\ pc = "done"

\* the strings of environ that name a key of the Document
Applicable ==
    {j \in 1..Len(environ) : /\ WellShaped(environ[j], UpperPrefix)
                             /\ KeyOf(environ[j], UpperPrefix) \in DOMAIN config.Properties}

\* no key of the Document is named by two strings with different values
NoConflict ==
    \A j \in Applicable, m \in Applicable :
        KeyOf(environ[j], UpperPrefix) = KeyOf(environ[m], UpperPrefix)
            => ValueOf(environ[j], UpperPrefix) = ValueOf(environ[m], UpperPrefix)

\* every character of v is one XML text can hold
ValidText(v) == \A j \in 1..Len(v) : v[j] # "^A"

\* C17 as stated: after the second run the change set is empty unless two
\* strings give one key different values, and the file is the file the first
\* run left.
Cex_C17_Idempotent ==
    SecondRunDone =>
        /\ NoConflict => changed = EmptyMap
        /\ file = file0

\* C17, amended: after the second run, which succeeds, the change set is
\* empty when no key is given different values by two strings and every value
\* given to a key of the Document is text XML can hold; and in every case the
\* file is the file the first run left.
Thm_C17_IdempotentOnValidText ==
    SecondRunDone =>
        /\ err = Nil
        /\ writes = 2
        /\ ( /\ NoConflict
             /\ \A j \in Applicable : ValidText(ValueOf(environ[j], UpperPrefix)) )
              => changed = EmptyMap
        /\ file = file0

\* the second run has returned with an empty change set on a file that holds
\* a value the environment gave, in escaped form
Wit_C17_IdempotentOnValidText ==
    /\ SecondRunDone
    /\ changed = EmptyMap
    /\ file = file0
    /\ \E j \in Applicable :
          /\ ValueOf(environ[j], UpperPrefix) = <<"<">>
          /\ config.Properties[KeyOf(environ[j], UpperPrefix)] = <<"<">>
          /\ \E n \in 1..Len(file.bytes) : file.bytes[n] = CharData(<<"&lt;">>)


====
